---- MODULE Spec2Model ----
(***************************************************************************)
(* Model of server/controllers/authController.js: the account-activation, *)
(* login, refresh and password-recovery handlers, over an abstract         *)
(* credential store, token codec and mail notifier.  Every handler is one  *)
(* action; the response to the last request is part of the state.           *)
(***************************************************************************)
EXTENDS Integers, Sequences, FiniteSets, TLC

VARIABLES
    users,          \* the User collection: a sequence of accounts, _id = index
    now,            \* the clock (Date.now(), and the iat of a token signed now)
    verifyTokens,   \* verification tokens verifyAccount has returned
    refreshTokens,  \* refresh tokens signed so far (signUp, login, refreshToken)
    nonceCount,     \* activation nonces drawn (= verification tokens signed)
    rawCount,       \* raw password-reset tokens drawn
    outbox,         \* mails the notifier has delivered
    resp,           \* the response to the last request
    \* history (read by the properties only)
    lastPw,         \* per email, the password most recently set with success
    changeTimes,    \* per email, the times of successful password changes
    staleIssued,    \* refresh tokens issued before a password change of their subject
    usedRaw,        \* raw reset tokens a reset has succeeded with
    failedRaw,      \* raw reset tokens whose mail could not be delivered
    replayed,       \* used raw reset tokens that were presented again
    \* requests handled step by step, one step per store or notifier call
    procs           \* the requests in arrival order: in flight, or answered

vars == <<users, now, verifyTokens, refreshTokens, nonceCount, rawCount,
          outbox, resp, lastPw, changeTimes, staleIssued, usedRaw, failedRaw, replayed,
          procs>>

----------------------------------------------------------------------------
(* Bounds of the model. *)

\* The clock runs over 1..MaxTime (one unit = the resolution of a JWT iat).
MaxTime == 2
\* Number of verification tokens (activation nonces) ever signed.
MaxVerify == 2
\* Number of raw password-reset tokens ever generated.
MaxReset == 2
\* Number of requests that are handled step by step.
MaxRequests == 4

(* Program constants, in clock units. *)
AccessTTL == 1
RefreshTTL == 2
VerifyTTL == 1
ResetTTL == 1

Emails == {"a@x.com", "b@x.com"}
\* The email that registers in SpecAccount, and the password it registers with.
AccountEmails == {"a@x.com"}
InitialPassword == "secret123"
Passwords == {"secret123", "hunter2222"}
Names == {"Ann"}

\* The JavaScript value undefined (a missing body field, a cleared document path).
Undefined == "<undefined>"

----------------------------------------------------------------------------
(* Token codec. *)

\* crypto.randomBytes(32).toString("hex"): the k-th value drawn; draws never collide.
\* The values are tabulated for the draws the bounds allow, one more included.
NonceValues == [k \in 1..(MaxVerify + 1) |-> "nonce" \o ToString(k)]
Nonce(k) == NonceValues[k]
RawValues == [k \in 1..(MaxReset + 1) |-> "raw" \o ToString(k)]
Raw(k) == RawValues[k]

\* bcrypt hash of a plaintext password, as the store keeps it.
BcryptDigests == [p \in Passwords |-> "bcrypt$" \o p]
bcrypt(p) == BcryptDigests[p]

\* crypto.createHash("sha256").update(value).digest("hex")
Sha256Digests == [value \in {RawValues[k] : k \in DOMAIN RawValues} |-> "sha256:" \o value]
HashOpaque(value) == Sha256Digests[value]

NoToken == [kind |-> "none"]

\* jwt.sign({user, verifyToken}, VERIFY_EMAIL_SECRET, {expiresIn})
createVerificationToken(user, verifyToken, t) ==
    [kind |-> "jwt", sig |-> "VERIFY_EMAIL_SECRET", user |-> user,
     verifyToken |-> verifyToken, iat |-> t, exp |-> t + VerifyTTL]

SignInAccessToken(id, t) ==
    [kind |-> "jwt", sig |-> "ACCESS_TOKEN", id |-> id, iat |-> t, exp |-> t + AccessTTL]

SignInRefreshToken(id, t) ==
    [kind |-> "jwt", sig |-> "REFRESH_TOKEN", id |-> id, iat |-> t, exp |-> t + RefreshTTL]

\* A token nobody signed with the server's secrets (or no token at all).
ForgedToken == [kind |-> "jwt", sig |-> "forged"]

\* jwt.verify(token, secret): TRUE when it returns the payload, FALSE when it throws.
JwtVerify(token, secret, t) ==
    /\ token.kind = "jwt"
    /\ token.sig = secret
    /\ t < token.exp

----------------------------------------------------------------------------
(* Credential store (User model). *)

\* User.findOne({ email }): the id (index) of the account, 0 when there is none.
FindByEmail(us, email) ==
    IF \E i \in DOMAIN us : us[i].email = email
    THEN CHOOSE i \in DOMAIN us : us[i].email = email
    ELSE 0

\* user.correctPassword(candidate, stored): bcrypt.compare
correctPassword(candidate, stored) == bcrypt(candidate) = stored

\* user.changedPasswordAfter(iat)
changedPasswordAfter(u, iat) == \E t \in u.passwordChangedAt : iat < t

\* The account as serialized with the password path unselected / removed.
Redact(u) == [f \in (DOMAIN u) \ {"password"} |-> u[f]]

\* Fault: a store without the unique constraint on email.
Create_NoUnique(us, f) ==
    IF \/ f.name = Undefined \/ f.email = Undefined
       \/ f.password = Undefined \/ f.password # f.passwordConfirm
    THEN [ok |-> FALSE, error |-> "ValidationError", users |-> us]
    ELSE [ok |-> TRUE, error |-> "",
          users |-> Append(us, [name |-> f.name, email |-> f.email,
                                password |-> bcrypt(f.password),
                                passwordChangedAt |-> {},
                                passwordResetToken |-> Undefined,
                                passwordResetExpires |-> {}])]

\* Fault: a store whose create replaces the account that holds the email.
Create_Replace(us, f) ==
    IF \/ f.name = Undefined \/ f.email = Undefined
       \/ f.password = Undefined \/ f.password # f.passwordConfirm
    THEN [ok |-> FALSE, error |-> "ValidationError", users |-> us]
    ELSE LET account == [name |-> f.name, email |-> f.email,
                         password |-> bcrypt(f.password),
                         passwordChangedAt |-> {},
                         passwordResetToken |-> Undefined,
                         passwordResetExpires |-> {}]
         IN [ok |-> TRUE, error |-> "",
             users |-> IF \E i \in DOMAIN us : us[i].email = f.email
                       THEN [i \in DOMAIN us |->
                               IF us[i].email = f.email THEN account ELSE us[i]]
                       ELSE Append(us, account)]

\* User.create(fields): schema validation, unique email, password hashing.
Create(us, f) ==
    IF \/ f.name = Undefined \/ f.email = Undefined
       \/ f.password = Undefined \/ f.password # f.passwordConfirm
    THEN [ok |-> FALSE, error |-> "ValidationError", users |-> us]
    ELSE IF FindByEmail(us, f.email) # 0
    THEN [ok |-> FALSE, error |-> "DuplicateEmail", users |-> us]
    ELSE [ok |-> TRUE, error |-> "",
          users |-> Append(us, [name |-> f.name, email |-> f.email,
                                password |-> bcrypt(f.password),
                                passwordChangedAt |-> {},
                                passwordResetToken |-> Undefined,
                                passwordResetExpires |-> {}])]

\* user.save() after user.password / user.passwordConfirm were assigned.
SavePassword(u, password, passwordConfirm, t) ==
    IF password = Undefined \/ password # passwordConfirm
    THEN [ok |-> FALSE, user |-> u]
    ELSE [ok |-> TRUE,
          user |-> [u EXCEPT !.password = bcrypt(password),
                             !.passwordChangedAt = {t}]]

\* user.createPasswordResetToken(): the document with hash and expiry set.
createPasswordResetToken(u, raw, t) ==
    [u EXCEPT !.passwordResetToken = HashOpaque(raw),
              !.passwordResetExpires = {t + ResetTTL}]

----------------------------------------------------------------------------
(* Responses. *)

NoUser == [none |-> TRUE]
NoCookies == [kind |-> "unset"]

Response(op, status, error, message) ==
    [op |-> op, status |-> status, error |-> error, message |-> message,
     token |-> NoToken, accessToken |-> NoToken, refreshToken |-> NoToken,
     user |-> NoUser, cookies |-> NoCookies]

Idle == Response("none", 0, "", "")

\* sendToken(user, statusCode, res): session-start side effects.
sendToken(op, id, u, statusCode, t) ==
    [Response(op, statusCode, "", "") EXCEPT
        !.accessToken = SignInAccessToken(id, t),
        !.refreshToken = SignInRefreshToken(id, t),
        !.user = Redact(u),
        !.cookies = [kind |-> "set", access |-> SignInAccessToken(id, t),
                     refresh |-> SignInRefreshToken(id, t)]]

----------------------------------------------------------------------------
Init ==
    /\ users = <<>>
    /\ now = 1
    /\ verifyTokens = {}
    /\ refreshTokens = {}
    /\ nonceCount = 0
    /\ rawCount = 0
    /\ outbox = {}
    /\ resp = Idle
    /\ lastPw = [e \in Emails |-> Undefined]
    /\ changeTimes = [e \in Emails |-> {}]
    /\ staleIssued = {}
    /\ usedRaw = {}
    /\ failedRaw = {}
    /\ replayed = {}
    /\ procs = <<>>

Tick ==
    /\ now < MaxTime
    /\ now' = now + 1
    /\ resp' = Idle
    /\ UNCHANGED <<procs, users, verifyTokens, refreshTokens, nonceCount, rawCount,
                   outbox, lastPw, changeTimes, staleIssued, usedRaw, failedRaw, replayed>>

\* Fault: verifyAccount signs and mails the token before looking the email up.
verifyAccountResult_SignFirst(name, email, password, passwordConfirm, mailOk) ==
    LET user == [name |-> name, email |-> email, password |-> password,
                 passwordConfirm |-> passwordConfirm]
        verifyToken == Nonce(nonceCount + 1)
        token == createVerificationToken(user, verifyToken, now)
    IN [users |-> users,
        nonceCount |-> nonceCount + 1,
        verifyTokens |-> IF mailOk THEN verifyTokens \cup {token} ELSE verifyTokens,
        outbox |-> IF mailOk
                   THEN outbox \cup {[kind |-> "activation", to |-> email,
                                      secret |-> verifyToken]}
                   ELSE outbox,
        resp |-> IF ~mailOk
                 THEN Response("verifyAccount", 500, "DeliveryFailed", "")
                 ELSE IF FindByEmail(users, email) # 0
                 THEN Response("verifyAccount", 400, "DuplicateEmail",
                               "Email Already exists")
                 ELSE [Response("verifyAccount", 201, "", "Please check your email")
                         EXCEPT !.token = token]]

\* What verifyAccount does with a request body in the current state: the store
\* as it leaves it (it only reads it), the nonces drawn, the tokens returned,
\* the mails delivered and the response.
verifyAccountResult(name, email, password, passwordConfirm, mailOk) ==
    IF FindByEmail(users, email) # 0
    THEN [users |-> users, nonceCount |-> nonceCount,
          verifyTokens |-> verifyTokens, outbox |-> outbox,
          resp |-> Response("verifyAccount", 400, "DuplicateEmail",
                            "Email Already exists")]
    ELSE LET user == [name |-> name, email |-> email, password |-> password,
                      passwordConfirm |-> passwordConfirm]
             verifyToken == Nonce(nonceCount + 1)
             token == createVerificationToken(user, verifyToken, now)
         IN IF mailOk
            THEN [users |-> users, nonceCount |-> nonceCount + 1,
                  verifyTokens |-> verifyTokens \cup {token},
                  outbox |-> outbox \cup {[kind |-> "activation", to |-> email,
                                           secret |-> verifyToken]},
                  resp |-> [Response("verifyAccount", 201, "",
                                     "Please check your email")
                              EXCEPT !.token = token]]
            ELSE [users |-> users, nonceCount |-> nonceCount + 1,
                  verifyTokens |-> verifyTokens, outbox |-> outbox,
                  resp |-> Response("verifyAccount", 500, "DeliveryFailed", "")]

\* verifyAccount: POST /signup with the registration fields.
verifyAccount(name, email, password, passwordConfirm, mailOk) ==
    \E r \in {verifyAccountResult(name, email, password, passwordConfirm, mailOk)} :
       /\ r.nonceCount <= MaxVerify
       /\ users' = r.users
       /\ nonceCount' = r.nonceCount
       /\ verifyTokens' = r.verifyTokens
       /\ outbox' = r.outbox
       /\ resp' = r.resp
       /\ UNCHANGED <<procs, now, refreshTokens, rawCount, lastPw, changeTimes,
                      staleIssued, usedRaw, failedRaw, replayed>>

\* Fault: signUp without the nonce comparison.
NonceMatches_Any(newUser, verify_token) == TRUE

\* newUser.verifyToken != verify_token is false: the path nonce is the signed one.
NonceMatches(newUser, verify_token) == newUser.verifyToken = verify_token

\* Fault: signUp fills the account's name from the wrong payload field.
RegistrationFields_Misplaced(newUser) ==
    [name |-> newUser.user.email, email |-> newUser.user.email,
     password |-> newUser.user.password,
     passwordConfirm |-> newUser.user.passwordConfirm]

\* The fields signUp hands to User.create, destructured from newUser.user.
RegistrationFields(newUser) ==
    [name |-> newUser.user.name, email |-> newUser.user.email,
     password |-> newUser.user.password,
     passwordConfirm |-> newUser.user.passwordConfirm]

\* What signUp does with a bearer token and a path nonce in the current state.
signUpResult(verification_token, verify_token) ==
    IF ~JwtVerify(verification_token, "VERIFY_EMAIL_SECRET", now)
    THEN [users |-> users, refreshTokens |-> refreshTokens, lastPw |-> lastPw,
          resp |-> Response("signUp", 401, "TokenInvalid", "jwt")]
    ELSE IF ~NonceMatches(verification_token, verify_token)
    THEN [users |-> users, refreshTokens |-> refreshTokens, lastPw |-> lastPw,
          resp |-> Response("signUp", 401, "TokenInvalid",
                            "Invalid token. Please try again")]
    ELSE LET r == Create(users, RegistrationFields(verification_token))
             id == Len(r.users)
         IN IF r.ok
            THEN [users |-> r.users,
                  refreshTokens |-> refreshTokens \cup {SignInRefreshToken(id, now)},
                  lastPw |-> [lastPw EXCEPT ![r.users[id].email] =
                                               verification_token.user.password],
                  resp |-> sendToken("signUp", id, r.users[id], 201, now)]
            ELSE [users |-> users, refreshTokens |-> refreshTokens,
                  lastPw |-> lastPw,
                  resp |-> Response("signUp", 400, r.error, "")]

\* signUp: POST /signup/:verify_token with the signed token as bearer credential.
signUp(verification_token, verify_token) ==
    \E r \in {signUpResult(verification_token, verify_token)} :
       /\ users' = r.users
       /\ refreshTokens' = r.refreshTokens
       /\ lastPw' = r.lastPw
       /\ resp' = r.resp
       /\ UNCHANGED <<procs, now, verifyTokens, nonceCount, rawCount, outbox, changeTimes,
                      staleIssued, usedRaw, failedRaw, replayed>>

\* Fault: login accepts any password of an existing account.
LoginResponse_AnyPassword(us, email, password, t) ==
    IF email = Undefined \/ password = Undefined
    THEN Response("login", 400, "BadRequest", "Please provide email and password!")
    ELSE LET id == FindByEmail(us, email)
         IN IF id = 0
            THEN Response("login", 401, "InvalidCredentials", "Incorrect email or password")
            ELSE sendToken("login", id, us[id], 200, t)

\* Fault: login answers an unknown email differently from a wrong password.
LoginResponse_Leaky(us, email, password, t) ==
    IF email = Undefined \/ password = Undefined
    THEN Response("login", 400, "BadRequest", "Please provide email and password!")
    ELSE LET id == FindByEmail(us, email)
         IN IF id = 0
            THEN Response("login", 404, "UserNotFound", "No user with that email")
            ELSE IF ~correctPassword(password, us[id].password)
            THEN Response("login", 401, "InvalidCredentials", "Incorrect email or password")
            ELSE sendToken("login", id, us[id], 200, t)

\* The response of login for a body {email, password} against a store.
LoginResponse(us, email, password, t) ==
    IF email = Undefined \/ password = Undefined
    THEN Response("login", 400, "BadRequest", "Please provide email and password!")
    ELSE LET id == FindByEmail(us, email)
         IN IF id = 0 \/ ~correctPassword(password, us[id].password)
            THEN Response("login", 401, "InvalidCredentials", "Incorrect email or password")
            ELSE sendToken("login", id, us[id], 200, t)

\* What login does with a request body in the current state: the store as it
\* leaves it (it only reads it), the refresh tokens issued and the response.
loginResult(email, password) ==
    LET r == LoginResponse(users, email, password, now)
    IN [users |-> users,
        refreshTokens |-> IF r.status = 200
                          THEN refreshTokens \cup {r.refreshToken}
                          ELSE refreshTokens,
        resp |-> r]

login(email, password) ==
    \E r \in {loginResult(email, password)} :
       /\ users' = r.users
       /\ refreshTokens' = r.refreshTokens
       /\ resp' = r.resp
       /\ UNCHANGED <<procs, now, verifyTokens, nonceCount, rawCount, outbox,
                      lastPw, changeTimes, staleIssued, usedRaw, failedRaw, replayed>>

\* Fault: logout stamps every account as having changed its password now.
logout_Revoke ==
    /\ resp' = [Response("logout", 200, "", "Logged out successfully")
                  EXCEPT !.cookies = [kind |-> "cleared"]]
    /\ users' = [i \in DOMAIN users |-> [users[i] EXCEPT !.passwordChangedAt = {now}]]
    /\ UNCHANGED <<procs, now, verifyTokens, refreshTokens, nonceCount, rawCount,
                   outbox, lastPw, changeTimes, staleIssued, usedRaw, failedRaw, replayed>>

\* logout: both cookies are overwritten with an empty, expiring value.
logout ==
    /\ resp' = [Response("logout", 200, "", "Logged out successfully")
                  EXCEPT !.cookies = [kind |-> "cleared"]]
    /\ UNCHANGED <<procs, users, now, verifyTokens, refreshTokens, nonceCount, rawCount,
                   outbox, lastPw, changeTimes, staleIssued, usedRaw, failedRaw, replayed>>

\* Fault: refreshToken sets the cookies but leaves the tokens out of the body.
RefreshResponse_CookieOnly(us, refresh_token, t) ==
    IF ~JwtVerify(refresh_token, "REFRESH_TOKEN", t)
    THEN Response("refreshToken", 401, "TokenInvalid", "jwt")
    ELSE IF refresh_token.id \notin DOMAIN us
    THEN Response("refreshToken", 400, "UserNotFound",
                  "Please login to access these resources!")
    ELSE IF changedPasswordAfter(us[refresh_token.id], refresh_token.iat)
    THEN Response("refreshToken", 401, "StalePassword",
                  "User recently changed password! Please log in again.")
    ELSE [Response("refreshToken", 200, "", "") EXCEPT
            !.cookies = [kind |-> "set",
                         access |-> SignInAccessToken(refresh_token.id, t),
                         refresh |-> SignInRefreshToken(refresh_token.id, t)]]

\* Fault: refreshToken without the changedPasswordAfter check.
RefreshResponse_NoFreshness(us, refresh_token, t) ==
    IF ~JwtVerify(refresh_token, "REFRESH_TOKEN", t)
    THEN Response("refreshToken", 401, "TokenInvalid", "jwt")
    ELSE IF refresh_token.id \notin DOMAIN us
    THEN Response("refreshToken", 400, "UserNotFound",
                  "Please login to access these resources!")
    ELSE [Response("refreshToken", 200, "", "") EXCEPT
            !.accessToken = SignInAccessToken(refresh_token.id, t),
            !.refreshToken = SignInRefreshToken(refresh_token.id, t),
            !.cookies = [kind |-> "set",
                         access |-> SignInAccessToken(refresh_token.id, t),
                         refresh |-> SignInRefreshToken(refresh_token.id, t)]]

\* The response of refreshToken for the cookie value refresh_token.
RefreshResponse(us, refresh_token, t) ==
    IF ~JwtVerify(refresh_token, "REFRESH_TOKEN", t)
    THEN Response("refreshToken", 401, "TokenInvalid", "jwt")
    ELSE IF refresh_token.id \notin DOMAIN us
    THEN Response("refreshToken", 400, "UserNotFound",
                  "Please login to access these resources!")
    ELSE IF changedPasswordAfter(us[refresh_token.id], refresh_token.iat)
    THEN Response("refreshToken", 401, "StalePassword",
                  "User recently changed password! Please log in again.")
    ELSE [Response("refreshToken", 200, "", "") EXCEPT
            !.accessToken = SignInAccessToken(refresh_token.id, t),
            !.refreshToken = SignInRefreshToken(refresh_token.id, t),
            !.cookies = [kind |-> "set",
                         access |-> SignInAccessToken(refresh_token.id, t),
                         refresh |-> SignInRefreshToken(refresh_token.id, t)]]

refreshToken(refresh_token) ==
    /\ resp' = RefreshResponse(users, refresh_token, now)
    /\ refreshTokens' = IF resp'.status = 200
                        THEN refreshTokens \cup {resp'.refreshToken}
                        ELSE refreshTokens
    /\ UNCHANGED <<procs, users, now, verifyTokens, nonceCount, rawCount, outbox,
                   lastPw, changeTimes, staleIssued, usedRaw, failedRaw, replayed>>

\* The record of password changes (history only) as a handler leaves it when
\* it changes no password.
NoPasswordChange ==
    [lastPw |-> lastPw, changeTimes |-> changeTimes, staleIssued |-> staleIssued]

\* The record of password changes (history only) after a successful password
\* change of account id.
PasswordChanged(id, password) ==
    [lastPw |-> [lastPw EXCEPT ![users[id].email] = password],
     changeTimes |-> [changeTimes EXCEPT ![users[id].email] = @ \cup {now}],
     staleIssued |-> staleIssued \cup {t \in refreshTokens : t.id = id}]

\* Fault: updatePassword without the comparison of oldPassword.
updatePasswordResult_NoCompare(subject, oldPassword, newPassword, passwordConfirm) ==
    IF oldPassword = Undefined \/ newPassword = Undefined
    THEN [users |-> users, changes |-> NoPasswordChange,
          resp |-> Response("updatePassword", 400, "BadRequest",
                            "Please provide your old and new passwords")]
    ELSE IF passwordConfirm = Undefined
    THEN [users |-> users, changes |-> NoPasswordChange,
          resp |-> Response("updatePassword", 400, "BadRequest",
                            "Please confirm your password")]
    ELSE IF subject \notin DOMAIN users
    THEN [users |-> users, changes |-> NoPasswordChange,
          resp |-> Response("updatePassword", 500, "InternalError", "TypeError")]
    ELSE LET r == SavePassword(users[subject], newPassword, passwordConfirm, now)
         IN IF r.ok
            THEN [users |-> [users EXCEPT ![subject] = r.user],
                  changes |-> PasswordChanged(subject, newPassword),
                  resp |-> [Response("updatePassword", 200, "", "")
                              EXCEPT !.user = r.user]]
            ELSE [users |-> users, changes |-> NoPasswordChange,
                  resp |-> Response("updatePassword", 400, "ValidationError", "")]

\* What updatePassword does for the authenticated subject req.user._id and a
\* request body in the current state.
updatePasswordResult(subject, oldPassword, newPassword, passwordConfirm) ==
    IF oldPassword = Undefined \/ newPassword = Undefined
    THEN [users |-> users, changes |-> NoPasswordChange,
          resp |-> Response("updatePassword", 400, "BadRequest",
                            "Please provide your old and new passwords")]
    ELSE IF passwordConfirm = Undefined
    THEN [users |-> users, changes |-> NoPasswordChange,
          resp |-> Response("updatePassword", 400, "BadRequest",
                            "Please confirm your password")]
    ELSE IF (IF subject \in DOMAIN users THEN users[subject].password
                                         ELSE Undefined) = "undefined"
    THEN [users |-> users, changes |-> NoPasswordChange,
          resp |-> Response("updatePassword", 400, "InvalidAccount", "Invalid user")]
    ELSE IF subject \notin DOMAIN users
    THEN \* user is null: user.correctPassword throws a TypeError
         [users |-> users, changes |-> NoPasswordChange,
          resp |-> Response("updatePassword", 500, "InternalError", "TypeError")]
    ELSE IF ~correctPassword(oldPassword, users[subject].password)
    THEN [users |-> users, changes |-> NoPasswordChange,
          resp |-> Response("updatePassword", 401, "InvalidCredentials",
                            "Your current password is wrong.")]
    ELSE LET r == SavePassword(users[subject], newPassword, passwordConfirm, now)
         IN IF r.ok
            THEN [users |-> [users EXCEPT ![subject] = r.user],
                  changes |-> PasswordChanged(subject, newPassword),
                  resp |-> [Response("updatePassword", 200, "", "")
                              EXCEPT !.user = r.user]]
            ELSE [users |-> users, changes |-> NoPasswordChange,
                  resp |-> Response("updatePassword", 400, "ValidationError", "")]

\* updatePassword: PATCH by the authenticated subject req.user._id.
updatePassword(subject, oldPassword, newPassword, passwordConfirm) ==
    \E r \in {updatePasswordResult(subject, oldPassword, newPassword, passwordConfirm)} :
       /\ users' = r.users
       /\ lastPw' = r.changes.lastPw
       /\ changeTimes' = r.changes.changeTimes
       /\ staleIssued' = r.changes.staleIssued
       /\ resp' = r.resp
       /\ UNCHANGED <<procs, now, verifyTokens, refreshTokens, nonceCount, rawCount, outbox,
                      usedRaw, failedRaw, replayed>>

\* Fault: the catch block of forgotPassword leaves the reset fields in place.
RollbackResetToken_Keep(u) == u

\* The catch block of forgotPassword: both reset fields are set to undefined.
RollbackResetToken(u) ==
    [u EXCEPT !.passwordResetToken = Undefined, !.passwordResetExpires = {}]

\* Fault: forgotPassword mails a new raw token but keeps the hash and expiry the
\* account already holds.
forgotPasswordResult_KeepFirst(email, mailOk) ==
    LET id == FindByEmail(users, email)
    IN IF id = 0
       THEN [users |-> users, rawCount |-> rawCount, outbox |-> outbox,
             failedRaw |-> failedRaw,
             resp |-> Response("forgotPassword", 404, "UserNotFound",
                               "There is no user with email address.")]
       ELSE LET resetToken == Raw(rawCount + 1)
                saved == IF users[id].passwordResetToken = Undefined
                         THEN createPasswordResetToken(users[id], resetToken, now)
                         ELSE users[id]
            IN IF mailOk
               THEN [users |-> [users EXCEPT ![id] = saved],
                     rawCount |-> rawCount + 1,
                     outbox |-> outbox \cup {[kind |-> "passwordReset", to |-> email,
                                              secret |-> resetToken]},
                     failedRaw |-> failedRaw,
                     resp |-> Response("forgotPassword", 200, "",
                                       "Token sent to email!")]
               ELSE [users |-> [users EXCEPT ![id] = RollbackResetToken(saved)],
                     rawCount |-> rawCount + 1,
                     outbox |-> outbox,
                     failedRaw |-> failedRaw \cup {resetToken},
                     resp |-> Response("forgotPassword", 500, "DeliveryFailed",
                             "There was an error sending the email. Try again later!")]

\* What forgotPassword does with {email} in the current state; the notifier
\* delivers (mailOk) or throws.
forgotPasswordResult(email, mailOk) ==
    LET id == FindByEmail(users, email)
    IN IF id = 0
       THEN [users |-> users, rawCount |-> rawCount, outbox |-> outbox,
             failedRaw |-> failedRaw,
             resp |-> Response("forgotPassword", 404, "UserNotFound",
                               "There is no user with email address.")]
       ELSE LET resetToken == Raw(rawCount + 1)
                saved == createPasswordResetToken(users[id], resetToken, now)
            IN IF mailOk
               THEN [users |-> [users EXCEPT ![id] = saved],
                     rawCount |-> rawCount + 1,
                     outbox |-> outbox \cup {[kind |-> "passwordReset", to |-> email,
                                              secret |-> resetToken]},
                     failedRaw |-> failedRaw,
                     resp |-> Response("forgotPassword", 200, "",
                                       "Token sent to email!")]
               ELSE [users |-> [users EXCEPT ![id] = RollbackResetToken(saved)],
                     rawCount |-> rawCount + 1,
                     outbox |-> outbox,
                     failedRaw |-> failedRaw \cup {resetToken},
                     resp |-> Response("forgotPassword", 500, "DeliveryFailed",
                             "There was an error sending the email. Try again later!")]

\* forgotPassword: POST {email}.
forgotPassword(email, mailOk) ==
    \E r \in {forgotPasswordResult(email, mailOk)} :
       /\ r.rawCount <= MaxReset
       /\ users' = r.users
       /\ rawCount' = r.rawCount
       /\ outbox' = r.outbox
       /\ failedRaw' = r.failedRaw
       /\ resp' = r.resp
       /\ UNCHANGED <<procs, now, verifyTokens, refreshTokens, nonceCount, lastPw,
                      changeTimes, staleIssued, usedRaw, replayed>>

\* Fault: the lookup accepts a token at the very time of its expiry ($gte).
FindByResetToken_AtExpiry(us, hashedToken, t) ==
    IF \E i \in DOMAIN us : /\ us[i].passwordResetToken = hashedToken
                            /\ \E x \in us[i].passwordResetExpires : x >= t
    THEN CHOOSE i \in DOMAIN us : /\ us[i].passwordResetToken = hashedToken
                                  /\ \E x \in us[i].passwordResetExpires : x >= t
    ELSE 0

\* User.findOne({passwordResetToken: hashedToken, passwordResetExpires: {$gt: now}})
FindByResetToken(us, hashedToken, t) ==
    IF \E i \in DOMAIN us : /\ us[i].passwordResetToken = hashedToken
                            /\ \E x \in us[i].passwordResetExpires : x > t
    THEN CHOOSE i \in DOMAIN us : /\ us[i].passwordResetToken = hashedToken
                                  /\ \E x \in us[i].passwordResetExpires : x > t
    ELSE 0

\* Fault: resetPassword saves the new password without clearing the reset fields.
ClearResetFields_Keep(u) == u

\* resetPassword sets both reset fields to undefined before the save.
ClearResetFields(u) ==
    [u EXCEPT !.passwordResetToken = Undefined, !.passwordResetExpires = {}]

\* Fault: resetPassword persists the cleared reset fields although the save of
\* the new password failed validation.
resetPasswordResult_ClearOnFailure(token, password, passwordConfirm) ==
    LET id == FindByResetToken(users, HashOpaque(token), now)
    IN IF id = 0
       THEN [users |-> users, changes |-> NoPasswordChange, usedRaw |-> usedRaw,
             resp |-> Response("resetPassword", 400, "TokenInvalid",
                               "Token is invalid or has expired")]
       ELSE LET r == SavePassword(users[id], password, passwordConfirm, now)
            IN IF r.ok
               THEN [users |-> [users EXCEPT ![id] = ClearResetFields(r.user)],
                     changes |-> PasswordChanged(id, password),
                     usedRaw |-> usedRaw \cup {token},
                     resp |-> Response("resetPassword", 200, "",
                                       "Password reset successful.")]
               ELSE [users |-> [users EXCEPT ![id] = ClearResetFields(users[id])],
                     changes |-> NoPasswordChange,
                     usedRaw |-> usedRaw,
                     resp |-> Response("resetPassword", 400, "ValidationError", "")]

\* What resetPassword does with the path token and {password, passwordConfirm}
\* in the current state.
resetPasswordResult(token, password, passwordConfirm) ==
    LET id == FindByResetToken(users, HashOpaque(token), now)
    IN IF id = 0
       THEN [users |-> users, changes |-> NoPasswordChange, usedRaw |-> usedRaw,
             resp |-> Response("resetPassword", 400, "TokenInvalid",
                               "Token is invalid or has expired")]
       ELSE LET r == SavePassword(users[id], password, passwordConfirm, now)
            IN IF r.ok
               THEN [users |-> [users EXCEPT ![id] = ClearResetFields(r.user)],
                     changes |-> PasswordChanged(id, password),
                     usedRaw |-> usedRaw \cup {token},
                     resp |-> Response("resetPassword", 200, "",
                                       "Password reset successful.")]
               ELSE [users |-> users, changes |-> NoPasswordChange,
                     usedRaw |-> usedRaw,
                     resp |-> Response("resetPassword", 400, "ValidationError", "")]

\* resetPassword: PATCH /reset-password/:token with {password, passwordConfirm}.
resetPassword(token, password, passwordConfirm) ==
    \E r \in {resetPasswordResult(token, password, passwordConfirm)} :
       /\ users' = r.users
       /\ lastPw' = r.changes.lastPw
       /\ changeTimes' = r.changes.changeTimes
       /\ staleIssued' = r.changes.staleIssued
       /\ usedRaw' = r.usedRaw
       /\ replayed' = replayed \cup ({token} \cap usedRaw)
       /\ resp' = r.resp
       /\ UNCHANGED <<procs, now, verifyTokens, refreshTokens, nonceCount, rawCount, outbox,
                      failedRaw>>

----------------------------------------------------------------------------
(* Specifications.  Both start from the empty store.  SpecSignup exercises *)
(* the registration flow with every input (two emails, mismatching         *)
(* confirmations, failing mail delivery, forged tokens, wrong nonces).     *)
(* SpecAccount exercises the session and password flows of one account     *)
(* that asks for activation once, with well-formed input, and registers    *)
(* through the same two handlers.                                          *)

Tokens == {Nonce(k) : k \in 1..MaxVerify}
RawTokens == {Raw(k) : k \in 1..MaxReset}
Optional(S) == S \cup {Undefined}

\* The <<password, passwordConfirm>> pairs a registration is submitted with:
\* every password confirmed, and one pair that does not match.
Registrations ==
    {<<p, p>> : p \in Passwords} \cup {<<"secret123", "hunter2222">>}

\* The {password, passwordConfirm} bodies resetPassword is called with: the
\* registration pairs, and one without a password.
ResetBodies == Registrations \cup {<<Undefined, "secret123">>}

\* The {newPassword, passwordConfirm} bodies updatePassword is called with: the
\* same, and one without a confirmation.
UpdateBodies == ResetBodies \cup {<<"secret123", Undefined>>}

NextSignup ==
    \/ Tick
    \/ \E n \in Names, e \in Emails, r \in Registrations, m \in BOOLEAN :
          verifyAccount(n, e, r[1], r[2], m)
    \/ \E t \in verifyTokens \cup {ForgedToken}, n \in Tokens : signUp(t, n)
    \/ \E e \in Optional(Emails), p \in Optional(Passwords) : login(e, p)
    \/ logout

SpecSignup == Init /\ [][NextSignup]_vars

\* The {email, password} bodies login is called with in SpecAccount: every
\* email with every password, and one body for each missing field.
LoginBodies ==
    (Emails \X Passwords)
        \cup {<<Undefined, InitialPassword>>, <<"a@x.com", Undefined>>}

NextAccount ==
    \/ Tick
    \/ \E n \in Names, e \in AccountEmails :
          nonceCount = 0 /\ verifyAccount(n, e, InitialPassword, InitialPassword, TRUE)
    \/ \E t \in verifyTokens : signUp(t, t.verifyToken)
    \/ \E c \in LoginBodies : login(c[1], c[2])
    \/ logout
    \/ \E t \in refreshTokens \cup {ForgedToken} : refreshToken(t)
    \* without oldPassword the answer does not depend on the rest of the body
    \/ \E s \in DOMAIN users, o \in Optional(Passwords), b \in UpdateBodies :
          (o = Undefined => b[1] = b[2]) /\ updatePassword(s, o, b[1], b[2])
    \* a subject whose account is no longer in the store
    \/ \E p \in Passwords : updatePassword(Len(users) + 1, InitialPassword, p, p)
    \* for an unknown email no mail is sent
    \/ \E e \in Emails, m \in BOOLEAN :
          (FindByEmail(users, e) = 0 => m) /\ forgotPassword(e, m)
    \* for a token that finds no account the body is not read
    \/ \E r \in RawTokens, b \in ResetBodies :
          /\ FindByResetToken(users, HashOpaque(r), now) = 0 => b[1] = Undefined
          /\ resetPassword(r, b[1], b[2])

SpecAccount == Init /\ [][NextAccount]_vars

----------------------------------------------------------------------------
(* Requests handled step by step.  A handler runs from one await to the    *)
(* next without interruption; the steps of different requests interleave   *)
(* at the awaited store and notifier calls.  A step is named after the     *)
(* call it ends with.                                                      *)

\* The state of the store and of the codec a step leaves alone.
registerRest == <<now, rawCount, changeTimes, staleIssued, usedRaw, failedRaw, replayed>>

\* verifyAccount up to User.findOne (line 34) and the check of its result.
verifyAccount_findOne(name, email, password, passwordConfirm) ==
    /\ Len(procs) < MaxRequests
    /\ LET user == [name |-> name, email |-> email, password |-> password,
                    passwordConfirm |-> passwordConfirm]
       IN IF FindByEmail(users, email) # 0
          THEN /\ resp' = Response("verifyAccount", 400, "DuplicateEmail",
                                   "Email Already exists")
               /\ procs' = Append(procs, [op |-> "verifyAccount", pc |-> "done",
                                          user |-> user, late |-> FALSE,
                                          resp |-> resp'])
          ELSE /\ procs' = Append(procs, [op |-> "verifyAccount",
                                          pc |-> "activateRegistration",
                                          user |-> user, late |-> FALSE,
                                          resp |-> Idle])
               /\ UNCHANGED resp
    /\ UNCHANGED <<users, verifyTokens, refreshTokens, nonceCount, outbox, lastPw>>
    /\ UNCHANGED registerRest

\* verifyAccount from createVerificationToken (line 44) to the response: the
\* token is signed, the mail is awaited (line 54), the token is returned.
\* late records whether the email had an account by the time of the signing.
verifyAccount_activateRegistration(i, mailOk) ==
    /\ procs[i].op = "verifyAccount"
    /\ procs[i].pc = "activateRegistration"
    /\ nonceCount < MaxVerify
    /\ LET user == procs[i].user
           verifyToken == Nonce(nonceCount + 1)
           token == createVerificationToken(user, verifyToken, now)
       IN /\ nonceCount' = nonceCount + 1
          /\ IF mailOk
             THEN /\ verifyTokens' = verifyTokens \cup {token}
                  /\ outbox' = outbox \cup {[kind |-> "activation", to |-> user.email,
                                             secret |-> verifyToken]}
                  /\ resp' = [Response("verifyAccount", 201, "",
                                       "Please check your email")
                                EXCEPT !.token = token]
             ELSE /\ resp' = Response("verifyAccount", 500, "DeliveryFailed", "")
                  /\ UNCHANGED <<verifyTokens, outbox>>
          /\ procs' = [procs EXCEPT ![i].pc = "done", ![i].resp = resp',
                                    ![i].late = FindByEmail(users, user.email) # 0]
    /\ UNCHANGED <<users, refreshTokens, lastPw>>
    /\ UNCHANGED registerRest

\* signUp: its one awaited call is User.create (line 87); what precedes it and
\* sendToken after it run without interruption.
signUp_create(verification_token, verify_token) ==
    /\ Len(procs) < MaxRequests
    /\ \E r \in {signUpResult(verification_token, verify_token)} :
          /\ users' = r.users
          /\ refreshTokens' = r.refreshTokens
          /\ lastPw' = r.lastPw
          /\ resp' = r.resp
          /\ procs' = Append(procs, [op |-> "signUp", pc |-> "done",
                                     token |-> verification_token,
                                     nonce |-> verify_token,
                                     resp |-> r.resp])
    /\ UNCHANGED <<verifyTokens, nonceCount, outbox>>
    /\ UNCHANGED registerRest

\* The bodies of the step-wise verifyAccount requests: one registration the
\* store accepts and one its validation rejects.
RegisterBodies == {<<"secret123", "secret123">>, <<"secret123", "hunter2222">>}

NextRegister ==
    \/ Tick
    \/ \E n \in Names, e \in AccountEmails, r \in RegisterBodies :
          verifyAccount_findOne(n, e, r[1], r[2])
    \/ \E i \in DOMAIN procs, m \in BOOLEAN : verifyAccount_activateRegistration(i, m)
    \/ \E t \in verifyTokens : signUp_create(t, t.verifyToken)

SpecRegister == Init /\ [][NextRegister]_vars

\* The state a step of forgotPassword or resetPassword leaves alone.
recoverRest == <<now, verifyTokens, refreshTokens, nonceCount>>

\* Fault: forgotPassword hands the raw token to the notifier before the save.
forgotPasswordNext_MailFirst(pc, ok) ==
    CASE pc = "findOne" -> "sendPasswordReset"
      [] pc = "sendPasswordReset" -> IF ok THEN "save" ELSE "rollback"
      [] pc = "save" -> "done"
      [] pc = "rollback" -> "done"

\* The order of the awaited calls of forgotPassword: findOne (line 204), save
\* (line 212), sendPasswordReset (line 226) and, when that throws, the save of
\* the catch block (line 235).
forgotPasswordNext(pc, ok) ==
    CASE pc = "findOne" -> "save"
      [] pc = "save" -> "sendPasswordReset"
      [] pc = "sendPasswordReset" -> IF ok THEN "done" ELSE "rollback"
      [] pc = "rollback" -> "done"

\* The response of a forgotPassword request that has made its last call.
forgotPasswordDone(p) ==
    IF p.failed
    THEN Response("forgotPassword", 500, "DeliveryFailed",
                  "There was an error sending the email. Try again later!")
    ELSE Response("forgotPassword", 200, "", "Token sent to email!")

\* A step of forgotPassword ends: request i goes on to its next call, or answers.
forgotPasswordStep(i, p, ok) ==
    LET pc == forgotPasswordNext(p.pc, ok)
    IN IF pc = "done"
       THEN /\ resp' = forgotPasswordDone(p)
            /\ procs' = [procs EXCEPT ![i] = [p EXCEPT !.pc = pc, !.resp = resp']]
       ELSE /\ procs' = [procs EXCEPT ![i] = [p EXCEPT !.pc = pc]]
            /\ UNCHANGED resp

\* forgotPassword up to User.findOne (line 204); when the account is found,
\* createPasswordResetToken (line 211) sets hash and expiry on the loaded
\* document, which user holds.
forgotPassword_findOne(email) ==
    /\ Len(procs) < MaxRequests
    /\ LET id == FindByEmail(users, email)
       IN IF id = 0
          THEN /\ resp' = Response("forgotPassword", 404, "UserNotFound",
                                   "There is no user with email address.")
               /\ procs' = Append(procs, [op |-> "forgotPassword", pc |-> "done",
                                          id |-> 0, email |-> email,
                                          resetToken |-> Undefined,
                                          saved |-> FALSE, failed |-> FALSE,
                                          resp |-> resp'])
               /\ UNCHANGED rawCount
          ELSE /\ rawCount < MaxReset
               /\ rawCount' = rawCount + 1
               /\ procs' = Append(procs,
                     [op |-> "forgotPassword",
                      pc |-> forgotPasswordNext("findOne", TRUE),
                      id |-> id, email |-> email,
                      resetToken |-> Raw(rawCount + 1),
                      user |-> createPasswordResetToken(users[id], Raw(rawCount + 1), now),
                      saved |-> FALSE, failed |-> FALSE, resp |-> Idle])
               /\ UNCHANGED resp
    /\ UNCHANGED <<users, outbox, lastPw, changeTimes, staleIssued, usedRaw,
                   failedRaw, replayed>>
    /\ UNCHANGED recoverRest

\* user.save({validateBeforeSave: false}), line 212: the paths the handler
\* has set on its document are written to the stored account.
forgotPassword_save(i) ==
    /\ procs[i].op = "forgotPassword"
    /\ procs[i].pc = "save"
    /\ users' = [users EXCEPT
                   ![procs[i].id].passwordResetToken = procs[i].user.passwordResetToken,
                   ![procs[i].id].passwordResetExpires = procs[i].user.passwordResetExpires]
    /\ forgotPasswordStep(i, [procs[i] EXCEPT !.saved = TRUE], TRUE)
    /\ UNCHANGED <<rawCount, outbox, lastPw, changeTimes, staleIssued, usedRaw,
                   failedRaw, replayed>>
    /\ UNCHANGED recoverRest

\* new Email(user, data).sendPasswordReset(), line 226: delivers or throws.
forgotPassword_sendPasswordReset(i, mailOk) ==
    /\ procs[i].op = "forgotPassword"
    /\ procs[i].pc = "sendPasswordReset"
    /\ IF mailOk
       THEN /\ outbox' = outbox \cup {[kind |-> "passwordReset", to |-> procs[i].email,
                                       secret |-> procs[i].resetToken]}
            /\ UNCHANGED failedRaw
       ELSE /\ failedRaw' = failedRaw \cup {procs[i].resetToken}
            /\ UNCHANGED outbox
    /\ forgotPasswordStep(i, [procs[i] EXCEPT !.failed = ~mailOk], mailOk)
    /\ UNCHANGED <<users, rawCount, lastPw, changeTimes, staleIssued, usedRaw, replayed>>
    /\ UNCHANGED recoverRest

\* The catch block, lines 233-235: both paths are set to undefined and saved.
forgotPassword_rollback(i) ==
    /\ procs[i].op = "forgotPassword"
    /\ procs[i].pc = "rollback"
    /\ users' = [users EXCEPT ![procs[i].id] = RollbackResetToken(@)]
    /\ forgotPasswordStep(i, [procs[i] EXCEPT !.user = RollbackResetToken(@)], TRUE)
    /\ UNCHANGED <<rawCount, outbox, lastPw, changeTimes, staleIssued, usedRaw,
                   failedRaw, replayed>>
    /\ UNCHANGED recoverRest

\* resetPassword up to User.findOne (lines 248-261).
resetPassword_findOne(token, password, passwordConfirm) ==
    /\ Len(procs) < MaxRequests
    /\ replayed' = replayed \cup ({token} \cap usedRaw)
    /\ LET id == FindByResetToken(users, HashOpaque(token), now)
       IN IF id = 0
          THEN /\ resp' = Response("resetPassword", 400, "TokenInvalid",
                                   "Token is invalid or has expired")
               /\ procs' = Append(procs, [op |-> "resetPassword", pc |-> "done",
                                          token |-> token, resp |-> resp'])
          ELSE /\ procs' = Append(procs, [op |-> "resetPassword", pc |-> "save",
                                          id |-> id, token |-> token,
                                          password |-> password,
                                          passwordConfirm |-> passwordConfirm,
                                          resp |-> Idle])
               /\ UNCHANGED resp
    /\ UNCHANGED <<users, rawCount, outbox, lastPw, changeTimes, staleIssued,
                   usedRaw, failedRaw>>
    /\ UNCHANGED recoverRest

\* user.save(), line 266, with the paths set in lines 262-265, and the response.
resetPassword_save(i) ==
    /\ procs[i].op = "resetPassword"
    /\ procs[i].pc = "save"
    /\ LET id == procs[i].id
           r == SavePassword(users[id], procs[i].password, procs[i].passwordConfirm, now)
       IN IF r.ok
          THEN /\ users' = [users EXCEPT ![id] = ClearResetFields(r.user)]
               /\ resp' = Response("resetPassword", 200, "",
                                   "Password reset successful.")
               /\ \E c \in {PasswordChanged(id, procs[i].password)} :
                     /\ lastPw' = c.lastPw
                     /\ changeTimes' = c.changeTimes
                     /\ staleIssued' = c.staleIssued
               /\ usedRaw' = usedRaw \cup {procs[i].token}
          ELSE /\ resp' = Response("resetPassword", 400, "ValidationError", "")
               /\ UNCHANGED <<users, lastPw, changeTimes, staleIssued, usedRaw>>
    /\ procs' = [procs EXCEPT ![i].pc = "done", ![i].resp = resp']
    /\ UNCHANGED <<rawCount, outbox, failedRaw, replayed>>
    /\ UNCHANGED recoverRest

\* The reset mails delivered so far: the raw tokens a client can present.
ResetMails == {m \in outbox : m.kind = "passwordReset"}

\* The bodies of the step-wise resetPassword requests: one the store accepts
\* and one its validation rejects.
RecoverBodies == {<<"hunter2222", "hunter2222">>, <<"secret123", "hunter2222">>}

NextRecover ==
    \/ Tick
    \/ \E n \in Names, e \in AccountEmails :
          nonceCount = 0 /\ verifyAccount(n, e, InitialPassword, InitialPassword, TRUE)
    \/ \E t \in verifyTokens : signUp(t, t.verifyToken)
    \/ \E e \in AccountEmails : forgotPassword_findOne(e)
    \/ \E i \in DOMAIN procs : forgotPassword_save(i)
    \/ \E i \in DOMAIN procs, m \in BOOLEAN : forgotPassword_sendPasswordReset(i, m)
    \/ \E i \in DOMAIN procs : forgotPassword_rollback(i)
    \/ \E m \in ResetMails, b \in RecoverBodies :
          resetPassword_findOne(m.secret, b[1], b[2])
    \/ \E i \in DOMAIN procs : resetPassword_save(i)

SpecRecover == Init /\ [][NextRecover]_vars

----------------------------------------------------------------------------
(* Properties of the registration flow (checked under SpecSignup). *)

ValidVerification(t) == JwtVerify(t, "VERIFY_EMAIL_SECRET", now)

AccountsOf(us, email) == {i \in DOMAIN us : us[i].email = email}

NoSession(r) ==
    /\ r.accessToken = NoToken
    /\ r.refreshToken = NoToken
    /\ r.cookies = NoCookies

\* C1: completing signup with a validly signed, unexpired verification token
\* and a path nonce different from the signed one fails with TokenInvalid
\* (401), creates no account and issues no access or refresh token.
C1_NonceBinding ==
    \A t \in verifyTokens, m \in Tokens :
        (ValidVerification(t) /\ m # t.verifyToken)
        => \A r \in {signUpResult(t, m)} :
              /\ r.resp.status = 401
              /\ r.resp.error = "TokenInvalid"
              /\ r.users = users
              /\ r.refreshTokens = refreshTokens
              /\ NoSession(r.resp)

\* A signup with a mismatching nonce has been answered while the token was valid.
C1_Witness ==
    /\ resp.op = "signUp"
    /\ resp.message = "Invalid token. Please try again"
    /\ \E t \in verifyTokens : ValidVerification(t)

\* C2: when a token returned by verifyAccount for a valid registration is
\* completed with its own nonce within the TTL while the email is still free,
\* the store ends with exactly one account for that email, built from the
\* fields inside the token, whose password is the hash and not the plaintext.
C2_SignupRoundTrip ==
    \A t \in verifyTokens :
        (/\ ValidVerification(t)
         /\ t.user.password = t.user.passwordConfirm
         /\ FindByEmail(users, t.user.email) = 0)
        => \A r \in {signUpResult(t, t.verifyToken)} :
              /\ r.resp.status = 201
              /\ Cardinality(AccountsOf(r.users, t.user.email)) = 1
              /\ Len(r.users) = Len(users) + 1
              /\ LET a == r.users[FindByEmail(r.users, t.user.email)]
                 IN /\ a.name = t.user.name
                    /\ a.email = t.user.email
                    /\ a.password = bcrypt(t.user.password)
                    /\ a.password # t.user.password
                    /\ a.password \notin Passwords

\* An account has just been created by a signup completion.
C2_Witness ==
    /\ resp.op = "signUp"
    /\ resp.status = 201
    /\ Len(users) >= 1

\* C3: login with an email that is not in the store and login with an existing
\* email and a wrong password are answered identically (401 InvalidCredentials,
\* same message, no token, no cookie, no account), and a login that fails
\* changes neither the store nor the set of issued refresh tokens.
C3_LoginNoExistenceLeak ==
    /\ \A e1 \in Emails, e2 \in Emails, p1 \in Passwords, p2 \in Passwords :
          (/\ FindByEmail(users, e1) = 0
           /\ FindByEmail(users, e2) # 0
           /\ ~correctPassword(p2, users[FindByEmail(users, e2)].password))
          => /\ LoginResponse(users, e1, p1, now) = LoginResponse(users, e2, p2, now)
             /\ LoginResponse(users, e1, p1, now) =
                   Response("login", 401, "InvalidCredentials",
                            "Incorrect email or password")
    /\ \A e \in Emails, p \in Passwords :
          \A r \in {loginResult(e, p)} :
             r.resp.status # 200
             => r.users = users /\ r.refreshTokens = refreshTokens /\ NoSession(r.resp)

\* A login failed while one email was registered and the other was not.
C3_Witness ==
    /\ resp.op = "login"
    /\ resp.status = 401
    /\ \E e1 \in Emails, e2 \in Emails :
          FindByEmail(users, e1) = 0 /\ FindByEmail(users, e2) # 0

\* C7 (as claimed): no response carries the password field, neither in the
\* serialized account nor in the payload of a returned signed token.
C7_NoPasswordOutward ==
    /\ "password" \notin DOMAIN resp.user
    /\ resp.token.kind = "jwt" =>
          /\ "password" \notin DOMAIN resp.token.user
          /\ "passwordConfirm" \notin DOMAIN resp.token.user

\* C9: verifyAccount never changes the store, and for an email that already
\* has an account it answers DuplicateEmail without signing a token, drawing
\* a nonce or sending an activation mail.
C9_ActivationPersistsNothing ==
    \A n \in Names, e \in Emails, p \in Passwords, c \in Passwords, m \in BOOLEAN :
        \A r \in {verifyAccountResult(n, e, p, c, m)} :
           /\ r.users = users
           /\ FindByEmail(users, e) # 0
              => /\ r.resp.status = 400
                 /\ r.resp.error = "DuplicateEmail"
                 /\ r.resp.token = NoToken
                 /\ r.nonceCount = nonceCount
                 /\ r.verifyTokens = verifyTokens
                 /\ r.outbox = outbox

\* verifyAccount has rejected a registration for an email that has an account.
C9_Witness ==
    /\ resp.op = "verifyAccount"
    /\ resp.error = "DuplicateEmail"
    /\ users # <<>>

----------------------------------------------------------------------------
(* Properties of the session and password flows (checked under SpecAccount). *)

ValidRefresh(t) == JwtVerify(t, "REFRESH_TOKEN", now)

EmailOf(t) == users[t.id].email

C5_ResetTokenSingleUse ==
    \A r \in RawTokens, b \in ResetBodies :
        \A o \in {resetPasswordResult(r, b[1], b[2])},
           id \in {FindByResetToken(users, HashOpaque(r), now)} :
           /\ o.resp.status = 200
              => /\ id # 0
                 /\ o.users[id].passwordResetToken = Undefined
                 /\ o.users[id].passwordResetExpires = {}
                 /\ r \in o.usedRaw
           /\ r \in usedRaw
              => /\ o.resp.status = 400
                 /\ o.resp.error = "TokenInvalid"
                 /\ o.users = users
                 /\ o.changes.lastPw = lastPw

\* A raw token that had reset the password was presented again and refused,
\* before its expiry time had passed.
C5_Witness ==
    /\ replayed # {}
    /\ resp.op = "resetPassword"
    /\ resp.error = "TokenInvalid"
    /\ \E i \in DOMAIN users : now \in users[i].passwordChangedAt

\* C6: when the reset mail cannot be delivered, forgotPassword answers
\* DeliveryFailed (500) and leaves the account without reset hash and expiry;
\* the raw token of that request is never accepted by resetPassword.
C6_ForgotPasswordRollback ==
    /\ \A e \in Emails :
          \A o \in {forgotPasswordResult(e, FALSE)}, id \in {FindByEmail(users, e)} :
             id # 0
             => /\ o.resp.status = 500
                /\ o.resp.error = "DeliveryFailed"
                /\ o.users[id].passwordResetToken = Undefined
                /\ o.users[id].passwordResetExpires = {}
                /\ o.outbox = outbox
    /\ \A r \in failedRaw :
          /\ FindByResetToken(users, HashOpaque(r), now) = 0
          /\ \A i \in DOMAIN users : users[i].passwordResetToken # HashOpaque(r)
          /\ \A b \in ResetBodies :
                \A o \in {resetPasswordResult(r, b[1], b[2])} :
                   o.resp.error = "TokenInvalid" /\ o.users = users

\* A delivery has failed for an existing account.
C6_Witness ==
    /\ failedRaw # {}
    /\ resp.op = "forgotPassword"
    /\ resp.status = 500

\* C8: login(email, p) succeeds (200, access and refresh token) exactly when
\* the email has an account and p is the password most recently set for it by
\* a successful signUp, updatePassword or resetPassword; any other password
\* is answered 401 InvalidCredentials.
C8_LoginLatestPassword ==
    \A e \in Emails, p \in Passwords :
        \A r \in {LoginResponse(users, e, p, now)} :
           IF FindByEmail(users, e) # 0 /\ p = lastPw[e]
           THEN /\ r.status = 200
                /\ r.accessToken.kind = "jwt"
                /\ r.refreshToken.kind = "jwt"
           ELSE /\ r.status = 401
                /\ r.error = "InvalidCredentials"
                /\ NoSession(r)

\* A login succeeded after the password had been changed, while the password
\* the account was registered with is no longer the current one.
C8_Witness ==
    /\ resp.op = "login"
    /\ resp.status = 200
    /\ \E e \in Emails :
          /\ changeTimes[e] # {}
          /\ \E t \in verifyTokens :
                t.user.email = e /\ t.user.password # lastPw[e]

\* C10 (as claimed): updatePassword answers InvalidAccount whenever the loaded
\* subject has no stored password.
C10_InvalidAccount ==
    \A o \in Passwords, p \in Passwords, c \in Passwords :
        \A r \in {updatePasswordResult(Len(users) + 1, o, p, c)} :
           /\ r.resp.status = 400
           /\ r.resp.error = "InvalidAccount"
           /\ r.users = users

\* C11: updatePassword answers BadRequest (400) when oldPassword, newPassword
\* or passwordConfirm is missing and InvalidCredentials (401) when oldPassword
\* is not the account's current password, and in both cases leaves the account
\* (password and passwordChangedAt included) as it was; the stored password
\* changes only when all three are present and oldPassword matches.
C11_UpdatePasswordGuards ==
    \A s \in DOMAIN users, o \in Optional(Passwords), b \in UpdateBodies :
        \A r \in {updatePasswordResult(s, o, b[1], b[2])} :
           /\ (o = Undefined \/ b[1] = Undefined \/ b[2] = Undefined)
              => /\ r.resp.status = 400
                 /\ r.resp.error = "BadRequest"
                 /\ r.users = users
           /\ (/\ o # Undefined /\ b[1] # Undefined /\ b[2] # Undefined
               /\ o # lastPw[users[s].email])
              => /\ r.resp.status = 401
                 /\ r.resp.error = "InvalidCredentials"
                 /\ r.users = users
           /\ (\/ r.users[s].password # users[s].password
               \/ r.users[s].passwordChangedAt # users[s].passwordChangedAt)
              => /\ o # Undefined /\ b[1] # Undefined /\ b[2] # Undefined
                 /\ o = lastPw[users[s].email]

\* updatePassword has refused a wrong oldPassword after the password had been
\* changed before.
C11_Witness ==
    /\ resp.op = "updatePassword"
    /\ resp.error = "InvalidCredentials"
    /\ \E e \in Emails : changeTimes[e] # {}

\* C12: resetPassword with a raw token whose hash no account holds, or whose
\* hash an account holds with an expiry that is not strictly in the future,
\* answers TokenInvalid (400) and leaves every account as it was.
C12_ResetTokenTimeBoxed ==
    \A r \in RawTokens, b \in ResetBodies :
        (\A i \in DOMAIN users :
            users[i].passwordResetToken = HashOpaque(r)
            => \A x \in users[i].passwordResetExpires : x <= now)
        => \A o \in {resetPasswordResult(r, b[1], b[2])} :
              /\ o.resp.status = 400
              /\ o.resp.error = "TokenInvalid"
              /\ o.users = users
              /\ o.changes = NoPasswordChange

\* resetPassword has answered TokenInvalid while an account holds a reset hash
\* whose expiry is exactly the present time.
C12_Witness ==
    /\ resp.op = "resetPassword"
    /\ resp.error = "TokenInvalid"
    /\ \E i \in DOMAIN users :
          /\ users[i].passwordResetToken # Undefined
          /\ users[i].passwordResetExpires = {now}

\* C13: a refreshToken call that succeeds returns an access and a refresh
\* token signed now for the subject of the presented token and sets the two
\* cookies to exactly these values; a call that fails (invalid token, unknown
\* subject, stale password) sets no cookie and returns no token.
C13_RefreshRotation ==
    \A t \in refreshTokens \cup {ForgedToken} :
        \A r \in {RefreshResponse(users, t, now)} :
           IF r.status = 200
           THEN /\ r.accessToken = SignInAccessToken(t.id, now)
                /\ r.refreshToken = SignInRefreshToken(t.id, now)
                /\ r.cookies = [kind |-> "set", access |-> r.accessToken,
                                refresh |-> r.refreshToken]
           ELSE /\ r.status \in {400, 401}
                /\ NoSession(r)

\* A refresh has succeeded with a token that was signed before the present time.
C13_Witness ==
    /\ resp.op = "refreshToken"
    /\ resp.status = 200
    /\ resp.cookies.kind = "set"
    /\ \E t \in refreshTokens : t.iat < now /\ t.id = resp.refreshToken.id

\* The position of a raw reset token in the order the tokens were drawn.
RawIndex(raw) == CHOOSE k \in DOMAIN RawValues : RawValues[k] = raw

\* C18: at most one raw reset token is accepted for an account at any time;
\* a forgotPassword that succeeds replaces the account's reset hash and expiry
\* by those of the new token; and a raw token mailed to an account before a
\* later one was mailed to it is answered TokenInvalid by resetPassword.
C18_OneResetTokenPerAccount ==
    /\ \A i \in DOMAIN users :
          Cardinality({r \in RawTokens :
                          FindByResetToken(users, HashOpaque(r), now) = i}) <= 1
    /\ \A e \in Emails :
          \A o \in {forgotPasswordResult(e, TRUE)}, id \in {FindByEmail(users, e)} :
             id # 0
             => /\ o.resp.status = 200
                /\ o.users[id].passwordResetToken = HashOpaque(Raw(rawCount + 1))
                /\ o.users[id].passwordResetToken # users[id].passwordResetToken
                /\ o.users[id].passwordResetExpires = {now + ResetTTL}
    /\ \A m1 \in ResetMails, m2 \in ResetMails :
          (m1.to = m2.to /\ RawIndex(m1.secret) < RawIndex(m2.secret))
          => \A b \in ResetBodies :
                \A o \in {resetPasswordResult(m1.secret, b[1], b[2])} :
                   /\ o.resp.status = 400
                   /\ o.resp.error = "TokenInvalid"
                   /\ o.users = users

\* Two reset tokens have been mailed to one account and a reset was answered
\* TokenInvalid before either of them could have expired.
C18_Witness ==
    /\ resp.op = "resetPassword"
    /\ resp.error = "TokenInvalid"
    /\ now < 1 + ResetTTL
    /\ \E m1 \in ResetMails, m2 \in ResetMails :
          m1.to = m2.to /\ m1.secret # m2.secret

\* C19: when resetPassword finds the account by an unexpired token and the
\* save fails validation (no password, or password and passwordConfirm
\* differ), it answers ValidationError and the store is as it was, so that
\* the same raw token still resets the password with a valid body.
C19_FailedResetKeepsToken ==
    \A r \in RawTokens :
        \A id \in {FindByResetToken(users, HashOpaque(r), now)} :
           id # 0
           => /\ \A b \in ResetBodies :
                    (b[1] = Undefined \/ b[1] # b[2])
                    => \A o \in {resetPasswordResult(r, b[1], b[2])} :
                          /\ o.resp.error = "ValidationError"
                          /\ o.users = users
                          /\ o.changes = NoPasswordChange
                          /\ o.usedRaw = usedRaw
                          /\ FindByResetToken(o.users, HashOpaque(r), now) = id
              /\ \A p \in Passwords :
                    \A o \in {resetPasswordResult(r, p, p)} :
                       /\ o.resp.status = 200
                       /\ o.users[id].password = bcrypt(p)

\* A reset has failed validation and the account still holds an unexpired
\* reset hash.
C19_Witness ==
    /\ resp.op = "resetPassword"
    /\ resp.error = "ValidationError"
    /\ \E r \in RawTokens : FindByResetToken(users, HashOpaque(r), now) # 0

\* C20: a refresh token that is unexpired, whose subject exists and whose
\* subject's password has not been changed since the token was issued is
\* accepted by refreshToken, whatever refreshToken and logout calls were made
\* since it was issued.
C20_NoRevocation ==
    \A t \in refreshTokens \ staleIssued :
        (ValidRefresh(t) /\ t.id \in DOMAIN users)
        => \A r \in {RefreshResponse(users, t, now)} :
              /\ r.status = 200
              /\ r.refreshToken.id = t.id

\* After a logout, a refresh token signed before the present time is still
\* accepted.
C20_Witness ==
    /\ resp.op = "logout"
    /\ \E t \in refreshTokens \ staleIssued :
          /\ t.iat < now
          /\ RefreshResponse(users, t, now).status = 200

----------------------------------------------------------------------------
(* Properties of concurrent registration requests (checked under           *)
(* SpecRegister).                                                          *)

\* The signUp requests that were answered with a session.
SignedUp(e) ==
    {i \in DOMAIN procs : /\ procs[i].op = "signUp"
                          /\ procs[i].resp.status = 201
                          /\ procs[i].token.user.email = e}

\* C14: however the steps of verifyAccount and signUp requests for one email
\* interleave, the store holds at most one account with that email, at most
\* one signUp for it is answered with a session, and a signUp that presents a
\* valid token with its nonce and a registration the store accepts, for an
\* email that has an account by then, fails with DuplicateEmail, creates no
\* account and starts no session.
C14_RegistrationRace ==
    /\ \A e \in Emails : Cardinality(AccountsOf(users, e)) <= 1
    /\ \A e \in Emails : Cardinality(SignedUp(e)) <= 1
    /\ \A t \in verifyTokens :
          (/\ ValidVerification(t)
           /\ t.user.password = t.user.passwordConfirm
           /\ FindByEmail(users, t.user.email) # 0)
          => \A r \in {signUpResult(t, t.verifyToken)} :
                /\ r.resp.status = 400
                /\ r.resp.error = "DuplicateEmail"
                /\ r.users = users
                /\ r.refreshTokens = refreshTokens
                /\ NoSession(r.resp)

\* A verifyAccount request passed its lookup, the account was created by
\* another request before its token was signed, and the signUp with that
\* token was answered DuplicateEmail.
C14_Witness ==
    \E i \in DOMAIN procs, j \in DOMAIN procs :
        /\ procs[i].op = "verifyAccount"
        /\ procs[i].late
        /\ procs[i].resp.status = 201
        /\ procs[j].op = "signUp"
        /\ procs[j].token = procs[i].resp.token
        /\ procs[j].resp.error = "DuplicateEmail"

\* C17: once a signUp with token T and nonce N has succeeded, a signUp with
\* the same T and N creates no account and issues no access or refresh token,
\* within the TTL of T as well as after it.
C17_VerificationTokenOnce ==
    \A i \in DOMAIN procs :
        (procs[i].op = "signUp" /\ procs[i].resp.status = 201)
        => \A r \in {signUpResult(procs[i].token, procs[i].nonce)} :
              /\ r.resp.status # 201
              /\ r.users = users
              /\ r.refreshTokens = refreshTokens
              /\ NoSession(r.resp)

\* The token of a successful signUp was presented a second time, within its
\* TTL, and refused.
C17_Witness ==
    \E i \in DOMAIN procs, j \in DOMAIN procs :
        /\ i < j
        /\ procs[i].op = "signUp"
        /\ procs[j].op = "signUp"
        /\ procs[i].resp.status = 201
        /\ procs[j].token = procs[i].token
        /\ procs[j].nonce = procs[i].nonce
        /\ procs[j].resp.status = 400
        /\ ValidVerification(procs[i].token)

----------------------------------------------------------------------------
(* Properties of concurrent recovery requests (checked under SpecRecover). *)

\* C15 (as claimed): of the resetPassword requests that carry the same raw
\* token, at most one is answered with success.
C15_SingleUseUnderRace ==
    \A i \in DOMAIN procs, j \in DOMAIN procs :
        (/\ i # j
         /\ procs[i].op = "resetPassword"
         /\ procs[j].op = "resetPassword"
         /\ procs[i].token = procs[j].token
         /\ procs[i].resp.status = 200)
        => procs[j].resp.status # 200

\* C16: every raw reset token the notifier has delivered belongs to a
\* forgotPassword request whose save of the hash and expiry had completed.
C16_MailAfterSave ==
    \A m \in ResetMails :
        \E i \in DOMAIN procs :
            /\ procs[i].op = "forgotPassword"
            /\ procs[i].resetToken = m.secret
            /\ procs[i].saved

\* A reset mail was delivered and its request answered, while another
\* forgotPassword request had been started before that answer.
C16_Witness ==
    /\ resp.op = "forgotPassword"
    /\ resp.status = 200
    /\ \E i \in DOMAIN procs, j \in DOMAIN procs :
          /\ i # j
          /\ procs[i].op = "forgotPassword"
          /\ procs[j].op = "forgotPassword"
          /\ procs[i].resp = resp
          /\ procs[i].resetToken \in {m.secret : m \in ResetMails}
          /\ procs[j].pc # "done"

====
